---- MODULE Spec2Model ----
(***************************************************************************)
(* Model of svg_animator: SVGParser (svg_parser.py, minidom backend),      *)
(* SVGToLottieConverter (svg_to_lottie_converter.py) and AnimationBuilder  *)
(* (animation_builder.py).                                                 *)
(*                                                                         *)
(* Text that the code inspects character by character (colour tokens,      *)
(* width/height attributes) is a sequence of one-character strings.        *)
(* Element ids and tag names are strings; the empty string is an absent    *)
(* attribute (minidom's getAttribute returns "" for it).                   *)
(* Numbers that the code divides are exact fractions <<num, den>>.         *)
(***************************************************************************)
EXTENDS Integers, Sequences, FiniteSets, TLC

(***************************************************************************)
(* Bounds                                                                  *)
(***************************************************************************)
MaxNodes == 3
MaxBatchNodes == 1
MaxFiles == 2
MaxPoints == 3
MaxSpaces == 1

(***************************************************************************)
(* Exact fractions                                                         *)
(***************************************************************************)
RECURSIVE GCD(_, _)
GCD(a, b) == IF b = 0 THEN a ELSE GCD(b, a % b)

Abs(n) == IF n < 0 THEN 0 - n ELSE n

Rat(n, d) ==
    LET g == GCD(Abs(n), d) IN
    IF n = 0 THEN <<0, 1>> ELSE <<n \div g, d \div g>>

RatDiv(r, k) == Rat(r[1], r[2] * k)

RECURSIVE Pow10(_)
Pow10(k) == IF k = 0 THEN 1 ELSE 10 * Pow10(k - 1)

(***************************************************************************)
(* Characters                                                              *)
(***************************************************************************)
Digits == <<"0", "1", "2", "3", "4", "5", "6", "7", "8", "9">>
HexLetters == <<"a", "b", "c", "d", "e", "f">>
HexUpper == <<"A", "B", "C", "D", "E", "F">>

IsDigit(c) == \E i \in 1..10 : Digits[i] = c
DigitVal(c) == (CHOOSE i \in 1..10 : Digits[i] = c) - 1

IsHexDigit(c) ==
    \/ IsDigit(c)
    \/ \E i \in 1..6 : HexLetters[i] = c \/ HexUpper[i] = c

HexVal(c) ==
    IF IsDigit(c) THEN DigitVal(c)
    ELSE 9 + (CHOOSE i \in 1..6 : HexLetters[i] = c \/ HexUpper[i] = c)

\* s[a:b] of Python, 0-based, clipped to the string
Slice(s, a, b) ==
    LET lo == IF a > Len(s) THEN Len(s) ELSE a
        hi == IF b > Len(s) THEN Len(s) ELSE b
    IN  IF hi <= lo THEN <<>> ELSE SubSeq(s, lo + 1, hi)

RECURSIVE lstrip(_, _)
lstrip(s, c) == IF s # <<>> /\ Head(s) = c THEN lstrip(Tail(s), c) ELSE s

\* int(s, 16) on a string of at most two characters: [ok, val]; ok = FALSE
\* is ValueError.  Python accepts surrounding blanks and a leading sign.
int16(s) ==
    LET bad == [ok |-> FALSE, val |-> 0] IN
    IF Len(s) = 1 THEN
        IF IsHexDigit(s[1]) THEN [ok |-> TRUE, val |-> HexVal(s[1])] ELSE bad
    ELSE IF Len(s) = 2 THEN
        IF IsHexDigit(s[1]) /\ IsHexDigit(s[2])
            THEN [ok |-> TRUE, val |-> 16 * HexVal(s[1]) + HexVal(s[2])]
        ELSE IF s[1] \in {"+", " "} /\ IsHexDigit(s[2])
            THEN [ok |-> TRUE, val |-> HexVal(s[2])]
        ELSE IF s[1] = "-" /\ IsHexDigit(s[2])
            THEN [ok |-> TRUE, val |-> 0 - HexVal(s[2])]
        ELSE IF IsHexDigit(s[1]) /\ s[2] = " "
            THEN [ok |-> TRUE, val |-> HexVal(s[1])]
        ELSE bad
    ELSE bad

\* re.sub(r'[^0-9.]', '', s)
StripUnits(s) == SelectSeq(s, LAMBDA c : IsDigit(c) \/ c = ".")

RECURSIVE DigitsVal(_)
DigitsVal(s) ==
    IF s = <<>> THEN 0
    ELSE 10 * DigitsVal(SubSeq(s, 1, Len(s) - 1)) + DigitVal(s[Len(s)])

\* float(s) on a string of digits and dots: [ok, val]
float(s) ==
    LET dots == {i \in 1..Len(s) : s[i] = "."} IN
    IF Cardinality(dots) > 1 \/ Len(s) = Cardinality(dots)
        THEN [ok |-> FALSE, val |-> <<0, 1>>]
    ELSE IF dots = {}
        THEN [ok |-> TRUE, val |-> Rat(DigitsVal(s), 1)]
    ELSE LET p == CHOOSE i \in dots : TRUE
             frac == SubSeq(s, p + 1, Len(s))
             whole == SubSeq(s, 1, p - 1)
         IN  [ok |-> TRUE,
              val |-> Rat(DigitsVal(whole) * Pow10(Len(frac)) + DigitsVal(frac),
                          Pow10(Len(frac)))]

(***************************************************************************)
(* Documents.  A document is the root <svg> element (node 0) plus nodes    *)
(* 1..Len(nodes) in document order; parent is the index of the enclosing   *)
(* element.  geometry_ok = FALSE is a numeric attribute (cx, r, x, width,  *)
(* ...) whose text float() rejects.                                        *)
(***************************************************************************)
Str_black == <<"b", "l", "a", "c", "k">>
Str_none == <<"n", "o", "n", "e">>
Str_ffffff == <<"#", "f", "f", "f", "f", "f", "f">>
Str_000000 == <<"#", "0", "0", "0", "0", "0", "0">>
Str_200px == <<"2", "0", "0", "p", "x">>

Tags == {"g", "path", "circle", "rect", "ellipse", "polygon", "polyline", "defs"}
ContainerTags == {"g", "defs"}
NumericTags == {"circle", "rect"}
Ids == {"", "a", "element_2"}

RECURSIVE Ancestors(_, _)
Ancestors(nodes, n) ==
    IF n = 0 THEN {0} ELSE {n} \cup Ancestors(nodes, nodes[n].parent)

\* the elements that can follow nodes in document order: a child of the
\* last element or of one of its ancestors, when that one is a container
NextNodes(nodes, tags, ids) ==
    {[tagName |-> t, id |-> i, parent |-> q, geometry_ok |-> ok, fill |-> <<>>] :
        t \in tags, i \in ids,
        q \in {a \in Ancestors(nodes, Len(nodes)) :
                  a = 0 \/ nodes[a].tagName \in ContainerTags},
        ok \in BOOLEAN}

RECURSIVE TreesOfSize(_, _, _)
TreesOfSize(tags, ids, n) ==
    IF n = 0 THEN {<<>>}
    ELSE {Append(nodes, x) :
            <<nodes, x>> \in
              {<<t, y>> \in UNION {{t} \X NextNodes(t, tags, ids) :
                                      t \in TreesOfSize(tags, ids, n - 1)} :
                  y.tagName \notin NumericTags => y.geometry_ok}}

TreesOver(tags, ids, n) == UNION {TreesOfSize(tags, ids, k) : k \in 0..n}

Children(doc, n) ==
    LET idx == {c \in 1..Len(doc.nodes) : doc.nodes[c].parent = n}
        RECURSIVE Sorted(_)
        Sorted(S) ==
            IF S = {} THEN <<>>
            ELSE LET m == CHOOSE x \in S : \A y \in S : x <= y
                 IN  <<m>> \o Sorted(S \ {m})
    IN  Sorted(idx)

TagName(doc, n) == IF n = 0 THEN "svg" ELSE doc.nodes[n].tagName
IdAttr(doc, n) == IF n = 0 THEN doc.root_id ELSE doc.nodes[n].id

(***************************************************************************)
(* SVGParser                                                               *)
(***************************************************************************)
EmptyMap == [k \in {} |-> <<>>]
Put(f, k, v) == [x \in DOMAIN f \cup {k} |-> IF x = k THEN v ELSE f[x]]

EmptyElementGroups ==
    [groups |-> <<>>, paths |-> <<>>, shapes |-> <<>>, original_elements |-> EmptyMap]

\* SVGParser.__init__; visited lists the identifiers in the order
\* analyze_structure assigned them, log what log() printed
NewParser ==
    [svg_doc |-> <<>>, element_groups |-> EmptyElementGroups,
     structure_map |-> EmptyMap, visited |-> <<>>, log |-> <<>>]

Log(p, verbose, msg) == IF verbose THEN [p EXCEPT !.log = Append(@, msg)] ELSE p

\* the dict one primitive is stored as; geom stands for its geometric
\* attributes (d / cx, cy, r / x, y, width, height / points) and is the
\* position of the element they were read from
PrimitiveRecord(doc, n) ==
    LET node == doc.nodes[n] IN
    [type |-> node.tagName, geom |-> n,
     fill |-> IF node.fill # <<>> THEN node.fill
              ELSE IF node.tagName \in {"circle", "rect"} THEN Str_black
              ELSE Str_none]

RECURSIVE _extract_node_elements(_, _), ExtractAll(_, _)
_extract_node_elements(doc, n) ==
    LET tag == TagName(doc, n) IN
    IF tag \in {"circle", "rect"} THEN
        IF doc.nodes[n].geometry_ok THEN <<PrimitiveRecord(doc, n)>> ELSE <<>>
    ELSE IF tag \in {"path", "polygon", "polyline"} THEN <<PrimitiveRecord(doc, n)>>
    ELSE IF tag = "g" THEN ExtractAll(doc, Children(doc, n))
    ELSE <<>>

ExtractAll(doc, kids) ==
    IF kids = <<>> THEN <<>>
    ELSE _extract_node_elements(doc, Head(kids)) \o ExtractAll(doc, Tail(kids))

_save_node_content(p, verbose, element_id, doc, n) ==
    LET tag == TagName(doc, n)
        raised == tag \in {"circle", "rect"} /\ ~doc.nodes[n].geometry_ok
        elements ==
            IF tag \in {"circle", "rect", "path", "polygon", "polyline"}
                THEN <<PrimitiveRecord(doc, n)>>
            ELSE IF tag = "g" THEN ExtractAll(doc, Children(doc, n))
            ELSE <<>>
    IN  IF raised THEN Log(p, verbose, <<"save_node_content_error", element_id>>)
        ELSE IF elements # <<>>
            THEN [p EXCEPT !.element_groups.original_elements = Put(@, element_id, elements)]
        ELSE p

Classify(eg, tag, element_id) ==
    IF tag = "g" THEN [eg EXCEPT !.groups = Append(@, element_id)]
    ELSE IF tag = "path" THEN [eg EXCEPT !.paths = Append(@, element_id)]
    ELSE IF tag \in {"circle", "rect", "ellipse", "polygon", "polyline"}
        THEN [eg EXCEPT !.shapes = Append(@, element_id)]
    ELSE eg

element_id_of(p, doc, n) ==
    IF IdAttr(doc, n) # "" THEN IdAttr(doc, n)
    ELSE "element_" \o ToString(Cardinality(DOMAIN p.structure_map))

RECURSIVE process_node(_, _, _, _, _), ProcessChildren(_, _, _, _, _)
process_node(p, verbose, doc, n, parent_id) ==
    LET element_id == element_id_of(p, doc, n)
        p1 == [p EXCEPT !.structure_map =
                            Put(@, element_id, [type |-> TagName(doc, n), parent |-> parent_id]),
                        !.visited = Append(@, element_id)]
        p2 == _save_node_content(p1, verbose, element_id, doc, n)
        p3 == [p2 EXCEPT !.element_groups = Classify(@, TagName(doc, n), element_id)]
    IN  ProcessChildren(p3, verbose, doc, Children(doc, n), <<element_id>>)

ProcessChildren(p, verbose, doc, kids, parent_id) ==
    IF kids = <<>> THEN p
    ELSE ProcessChildren(process_node(p, verbose, doc, Head(kids), parent_id),
                         verbose, doc, Tail(kids), parent_id)

_analyze_with_minidom(p, verbose) == process_node(p, verbose, p.svg_doc[1], 0, <<>>)

\* load_svg: [ok, parser]
load_svg(p, verbose, doc) ==
    LET p1 == Log([p EXCEPT !.svg_doc = <<>>], verbose, <<"load">>) IN
    IF doc.kind = "ok"
        THEN [ok |-> TRUE, parser |-> Log([p1 EXCEPT !.svg_doc = <<doc>>], verbose, <<"parsed">>)]
    ELSE [ok |-> FALSE, parser |-> Log(p1, verbose, <<"parse_error">>)]

is_flat(eg) == Len(eg.groups) < 3 /\ Len(eg.paths) > 20

\* analyze_structure: resets element_groups (and nothing else), then walks
analyze_structure(p, verbose) ==
    LET p1 == [p EXCEPT !.element_groups = EmptyElementGroups, !.visited = <<>>]
        p2 == _analyze_with_minidom(p1, verbose)
    IN  Log(p2, verbose, <<"found">>)

get_element_by_id(p, element_id) ==
    IF element_id \in DOMAIN p.element_groups.original_elements
        THEN p.element_groups.original_elements[element_id]
    ELSE <<>>

DefaultSize == <<Rat(800, 1), Rat(600, 1)>>

\* the return statements of get_svg_size, given float() of both attributes
SizeOrDefault(width, height) ==
    IF width.ok /\ height.ok THEN <<width.val, height.val>> ELSE DefaultSize

\* get_svg_size: one try block around both attributes
get_svg_size(doc) ==
    SizeOrDefault(
        float(StripUnits(IF doc.width # <<>> THEN doc.width ELSE <<"8", "0", "0">>)),
        float(StripUnits(IF doc.height # <<>> THEN doc.height ELSE <<"6", "0", "0">>)))

(***************************************************************************)
(* SVGToLottieConverter._parse_color                                       *)
(***************************************************************************)
UpperCase == <<"A", "B", "C", "D", "E", "F", "G", "H", "I", "J", "K", "L", "M",
               "N", "O", "P", "Q", "R", "S", "T", "U", "V", "W", "X", "Y", "Z">>
LowerCase == <<"a", "b", "c", "d", "e", "f", "g", "h", "i", "j", "k", "l", "m",
               "n", "o", "p", "q", "r", "s", "t", "u", "v", "w", "x", "y", "z">>

LowerChar(c) ==
    IF \E i \in 1..26 : UpperCase[i] = c
        THEN LowerCase[CHOOSE i \in 1..26 : UpperCase[i] = c]
    ELSE c

lower(s) == [i \in 1..Len(s) |-> LowerChar(s[i])]

Color(r, g, b, a) == <<r, g, b, a>>
Zero == <<0, 1>>
One == <<1, 1>>

color_map ==
    {<<Str_black, Color(Zero, Zero, Zero, One)>>,
     <<<<"w", "h", "i", "t", "e">>, Color(One, One, One, One)>>,
     <<<<"r", "e", "d">>, Color(One, Zero, Zero, One)>>,
     <<<<"g", "r", "e", "e", "n">>, Color(Zero, One, Zero, One)>>,
     <<<<"b", "l", "u", "e">>, Color(Zero, Zero, One, One)>>,
     <<<<"y", "e", "l", "l", "o", "w">>, Color(One, One, Zero, One)>>,
     <<<<"c", "y", "a", "n">>, Color(Zero, One, One, One)>>,
     <<<<"m", "a", "g", "e", "n", "t", "a">>, Color(One, Zero, One, One)>>,
     <<Str_none, Color(Zero, Zero, Zero, Zero)>>}

default_color == Color(Zero, Zero, Zero, One)

\* int(_, 16) / 255
Channel(h) == Rat(h.val, 255)

NoColor == [ok |-> FALSE, color |-> default_color]

\* the color of the channels c, each [ok, val] of int(_, 16); needs 3 or 4
HexColor(c) ==
    IF Len(c) < 3 \/ \E i \in 1..Len(c) : ~c[i].ok THEN NoColor
    ELSE [ok |-> TRUE,
          color |-> Color(Channel(c[1]), Channel(c[2]), Channel(c[3]),
                          IF Len(c) = 4 THEN Channel(c[4]) ELSE One)]

\* the strings int(_, 16) is applied to, by the length of the token
HexPairs(color) ==
    IF Len(color) = 3 THEN [i \in 1..3 |-> <<color[i], color[i]>>]
    ELSE IF Len(color) \in {6, 8}
        THEN [i \in 1..(Len(color) \div 2) |-> Slice(color, 2 * i - 2, 2 * i)]
    ELSE <<>>

\* the three hex forms: [ok, color]; ok = FALSE is "no return from this
\* branch" (unsupported length, or ValueError from int)
ParseHex(color_str) ==
    HexColor([i \in DOMAIN HexPairs(lstrip(color_str, "#")) |->
                 int16(HexPairs(lstrip(color_str, "#"))[i])])

\* regular-expression pieces; a position is the index of the next
\* character, 0 is "no match"
IsSpace(c) == c \in {" ", "\t", "\n"}

RECURSIVE SkipSpace(_, _)
SkipSpace(s, i) ==
    IF i = 0 THEN 0
    ELSE IF i <= Len(s) /\ IsSpace(s[i]) THEN SkipSpace(s, i + 1) ELSE i

\* character classes of the two patterns: \d and [\d\.]
InClass(c, class) == IsDigit(c) \/ (class = "[\\d\\.]" /\ c = ".")

RECURSIVE SkipClass(_, _, _)
SkipClass(s, i, class) ==
    IF i <= Len(s) /\ InClass(s[i], class) THEN SkipClass(s, i + 1, class) ELSE i

\* (X+) at i: the end of the run, 0 if the run is empty
Run(s, i, class) ==
    IF i = 0 THEN 0
    ELSE LET e == SkipClass(s, i, class) IN IF e = i THEN 0 ELSE e

Lit(s, i, lit) ==
    IF i = 0 THEN 0
    ELSE IF i + Len(lit) - 1 <= Len(s) /\ SubSeq(s, i, i + Len(lit) - 1) = lit
        THEN i + Len(lit)
    ELSE 0

\* \s*(X+)\s*  followed by the literal close: [from, to, next]
Group(s, i, class, close) ==
    LET from == SkipSpace(s, i)
        to == Run(s, from, class)
        next == Lit(s, SkipSpace(s, to), close)
    IN  [from |-> from, to |-> to, next |-> next]

Text(s, g) == SubSeq(s, g.from, g.to - 1)

\* rgb\(\s*(\d+)\s*,\s*(\d+)\s*,\s*(\d+)\s*\)
ParseRgb(s) ==
    LET g1 == Group(s, Lit(s, 1, <<"r", "g", "b", "(">>), "\\d", <<",">>)
        g2 == Group(s, g1.next, "\\d", <<",">>)
        g3 == Group(s, g2.next, "\\d", <<")">>)
    IN  IF g3.next # 0
            THEN [ok |-> TRUE,
                  color |-> Color(Rat(DigitsVal(Text(s, g1)), 255),
                                  Rat(DigitsVal(Text(s, g2)), 255),
                                  Rat(DigitsVal(Text(s, g3)), 255), One)]
        ELSE NoColor

\* rgba\(\s*(\d+)\s*,\s*(\d+)\s*,\s*(\d+)\s*,\s*([\d\.]+)\s*\)
ParseRgba(s) ==
    LET g1 == Group(s, Lit(s, 1, <<"r", "g", "b", "a", "(">>), "\\d", <<",">>)
        g2 == Group(s, g1.next, "\\d", <<",">>)
        g3 == Group(s, g2.next, "\\d", <<",">>)
        g4 == Group(s, g3.next, "[\\d\\.]", <<")">>)
    IN  IF g4.next # 0 /\ float(Text(s, g4)).ok
            THEN [ok |-> TRUE,
                  color |-> Color(Rat(DigitsVal(Text(s, g1)), 255),
                                  Rat(DigitsVal(Text(s, g2)), 255),
                                  Rat(DigitsVal(Text(s, g3)), 255),
                                  float(Text(s, g4)).val)]
        ELSE NoColor

\* color_map.get(name): [ok, color]
Named(name) ==
    IF \E e \in color_map : e[1] = name
        THEN [ok |-> TRUE, color |-> (CHOOSE e \in color_map : e[1] = name)[2]]
    ELSE NoColor

\* the first branch of _parse_color that returns, else the default
FirstReturn(tries) ==
    IF \E t \in 1..Len(tries) : tries[t].ok
        THEN tries[CHOOSE t \in 1..Len(tries) :
                       tries[t].ok /\ \A u \in 1..(t - 1) : ~tries[u].ok].color
    ELSE default_color

_parse_color(color_str) ==
    IF color_str = <<>> \/ lower(color_str) = Str_none THEN Color(Zero, Zero, Zero, Zero)
    ELSE FirstReturn(<<Named(lower(color_str)),
                       IF Head(color_str) = "#" THEN ParseHex(color_str) ELSE NoColor,
                       ParseRgb(color_str),
                       ParseRgba(color_str)>>)

\* _parse_svg_path: the same placeholder path for every d string
_parse_svg_path(d) == <<<<0, 0, 0>>, <<1, 2, 0, 0, 0, 0>>>>

(***************************************************************************)
(* SVGToLottieConverter: layers and shape groups.  A shape group is the    *)
(* sequence of shapes added to one lottie Group; src records which         *)
(* PrimitiveRecord it was built from.                                      *)
(***************************************************************************)
Shape(ty, value) == [ty |-> ty, value |-> value]

ShapeLayer(name) == [name |-> name, shapes |-> <<>>]

add_shape(layer, group) == [layer EXCEPT !.shapes = Append(@, group)]

\* _add_path_to_layer that leaves out a path whose fill is fully transparent
_add_path_to_layer_skip_unfilled(layer, path_data) ==
    IF path_data.type # "path" \/ _parse_color(path_data.fill)[4] = Zero THEN layer
    ELSE add_shape(layer,
            [src |-> path_data.geom,
             shapes |-> <<Shape("Path", _parse_svg_path(path_data.geom)),
                          Shape("Fill", _parse_color(path_data.fill))>>])

\* _add_path_to_layer: nothing for a record without 'd'
_add_path_to_layer(layer, path_data) ==
    IF path_data.type # "path" THEN layer
    ELSE add_shape(layer,
            [src |-> path_data.geom,
             shapes |-> <<Shape("Path", _parse_svg_path(path_data.geom)),
                          Shape("Fill", _parse_color(path_data.fill))>>])

\* _add_shape_to_layer: a geometry for rect and circle only, a fill always
_add_shape_to_layer(layer, shape_data) ==
    LET geometry ==
            IF shape_data.type = "rect" THEN <<Shape("Rect", shape_data.geom)>>
            ELSE IF shape_data.type = "circle" THEN <<Shape("Ellipse", shape_data.geom)>>
            ELSE <<>>
    IN  add_shape(layer,
            [src |-> shape_data.geom,
             shapes |-> geometry \o <<Shape("Fill", _parse_color(shape_data.fill))>>])

RECURSIVE AddPaths(_, _, _)
AddPaths(p, layer, ids) ==
    IF ids = <<>> THEN layer
    ELSE LET path_data == get_element_by_id(p, Head(ids)) IN
         AddPaths(p,
                  IF path_data # <<>> THEN _add_path_to_layer(layer, path_data[1]) ELSE layer,
                  Tail(ids))

RECURSIVE AddShapes(_, _, _)
AddShapes(p, layer, ids) ==
    IF ids = <<>> THEN layer
    ELSE LET shape_data == get_element_by_id(p, Head(ids)) IN
         AddShapes(p,
                   IF shape_data # <<>> THEN _add_shape_to_layer(layer, shape_data[1]) ELSE layer,
                   Tail(ids))

RECURSIVE AddGroupElements(_, _)
AddGroupElements(layer, group_data) ==
    IF group_data = <<>> THEN layer
    ELSE LET element == Head(group_data)
             layer1 ==
                 IF element.type = "path" THEN _add_path_to_layer(layer, element)
                 ELSE IF element.type \in {"rect", "circle", "polygon", "polyline"}
                     THEN _add_shape_to_layer(layer, element)
                 ELSE layer
         IN  AddGroupElements(layer1, Tail(group_data))

\* the loop over enumerate(element_groups['groups']), from index i on
RECURSIVE AddGroupLayers(_, _, _, _)
AddGroupLayers(p, layers, groups, i) ==
    IF i > Len(groups) THEN layers
    ELSE LET group_data == get_element_by_id(p, groups[i]) IN
         AddGroupLayers(p,
             IF group_data # <<>>
                 THEN Append(layers,
                             AddGroupElements(ShapeLayer("Group " \o ToString(i)), group_data))
             ELSE layers,
             groups, i + 1)

\* _process_element_groups: the layers of the animation afterwards
_process_element_groups(p, layers, element_groups) ==
    LET main_layer ==
            AddShapes(p, AddPaths(p, ShapeLayer("Main Elements"), element_groups.paths),
                      element_groups.shapes)
    IN  AddGroupLayers(p, Append(layers, main_layer), element_groups.groups, 1)

(***************************************************************************)
(* Configuration dicts: keys is the set of keys present; a key that is     *)
(* absent holds the filler value of NoConfig.  none = TRUE is Python None. *)
(***************************************************************************)
NoConfig ==
    [none |-> TRUE, keys |-> {}, width |-> Zero, height |-> Zero, background_color |-> <<>>]

EmptyDict == [NoConfig EXCEPT !.none = FALSE]

SetKey(config, key, value) ==
    [[config EXCEPT !.keys = @ \cup {key}] EXCEPT ![key] = value]

\* default_config.copy() updated with animation_config
MergedConfig(animation_config) ==
    LET has(k) == ~animation_config.none /\ k \in animation_config.keys IN
    [n_frames |-> 90, framerate |-> 30,
     width |-> IF has("width") THEN animation_config.width ELSE Rat(800, 1),
     height |-> IF has("height") THEN animation_config.height ELSE Rat(600, 1),
     background_color |-> IF has("background_color") THEN animation_config.background_color
                          ELSE Str_ffffff]

\* the background layer for color channels c; ok = FALSE is the ValueError
\* of int(color[i:i+2], 16)
BackgroundOf(config, c) ==
    IF c[1].ok /\ c[2].ok /\ c[3].ok
        THEN [ok |-> TRUE,
              layer |-> add_shape(ShapeLayer("Background"),
                  [src |-> 0,
                   shapes |-> <<Shape("Rect",
                                      [position |-> <<RatDiv(config.width, 2),
                                                      RatDiv(config.height, 2)>>,
                                       size |-> <<config.width, config.height>>]),
                                Shape("Fill", Color(Channel(c[1]), Channel(c[2]),
                                                    Channel(c[3]), One))>>])]
    ELSE [ok |-> FALSE, layer |-> ShapeLayer("Background")]

\* "if bg_color:" and the layer added in either case
BackgroundLayer(config) ==
    IF config.background_color = <<>>
        THEN [ok |-> TRUE, layer |-> ShapeLayer("Background")]
    ELSE BackgroundOf(config,
            [i \in 1..3 |-> int16(Slice(lstrip(config.background_color, "#"),
                                         2 * i - 2, 2 * i))])

\* what stands in written for a file no animation was exported for
NoAnimationWritten ==
    [width |-> Zero, height |-> Zero, n_frames |-> 0, framerate |-> 0, layers |-> <<>>]

\* convert_svg_to_lottie after the background layer: the layers, the export
convert_export(p, verbose, file, config, background) ==
    IF ~background.ok
        THEN [outcome |-> "raised", parser |-> p, an |-> NoAnimationWritten]
    ELSE IF file.status = "unwritable"
        THEN [outcome |-> "none",
              parser |-> Log(Log(p, verbose, <<"save">>), verbose, <<"save_error">>),
              an |-> NoAnimationWritten]
    ELSE [outcome |-> "written", parser |-> Log(p, verbose, <<"save">>),
          an |-> [width |-> config.width, height |-> config.height,
                  n_frames |-> config.n_frames, framerate |-> config.framerate,
                  layers |-> _process_element_groups(p, <<background.layer>>,
                                                     p.element_groups)]]

\* convert_svg_to_lottie after load_svg
convert_loaded(loaded, verbose, file, config) ==
    IF ~loaded.ok
        THEN [outcome |-> "none", parser |-> Log(loaded.parser, verbose, <<"cannot_load">>),
              an |-> NoAnimationWritten]
    ELSE convert_export(Log(analyze_structure(loaded.parser, verbose), verbose, <<"create">>),
                verbose, file, config, BackgroundLayer(config))

\* convert_svg_to_lottie on the converter's own parser p.
\* outcome: "written" (returns json_path), "none" (returns None) or
\* "raised" (an exception leaves the method); an is the animation built.
convert_svg_to_lottie(p, verbose, file, animation_config) ==
    convert_loaded(load_svg(p, verbose, file.doc), verbose, file,
                  MergedConfig(animation_config))

(***************************************************************************)
(* AnimationBuilder.process_svg                                            *)
(*                                                                         *)
(* A file is a document plus what the file system does with it: status is  *)
(* "ok", "missing" (os.path.exists is false), "unwritable" (export_lottie  *)
(* raises) or "html_unwritable" (writing the preview raises).              *)
(***************************************************************************)
NewResult(svg_path) ==
    [success |-> FALSE, input_file |-> svg_path, output_files |-> <<>>,
     format |-> "lottie", messages |-> <<>>, structure_info |-> <<>>]

Quiet(p) == [p EXCEPT !.log = <<>>]
Say(verbose, msg) == IF verbose THEN <<msg>> ELSE <<>>

\* animation_config inside process_svg once width and height are filled in
WithSize(animation_config, size) ==
    [[animation_config EXCEPT
        !.none = FALSE,
        !.keys = (IF animation_config.none THEN {} ELSE @) \cup {"width", "height"}]
     EXCEPT
        !.width = IF ~animation_config.none /\ "width" \in animation_config.keys
                      THEN @ ELSE size[1],
        !.height = IF ~animation_config.none /\ "height" \in animation_config.keys
                       THEN @ ELSE size[2]]

\* process_svg_converted that appends no message when the conversion failed
process_svg_converted_without_message(r, conv, verbose, svg_path, file) ==
    IF conv.outcome = "raised" THEN
        [r EXCEPT !.raised = TRUE, !.result = NewResult(svg_path),
                  !.cp = Quiet(conv.parser), !.printed = @ \o conv.parser.log]
    ELSE IF conv.outcome # "written" THEN
        [r EXCEPT !.cp = Quiet(conv.parser), !.printed = @ \o conv.parser.log]
    ELSE IF file.status = "html_unwritable" THEN
        [r EXCEPT !.result.success = TRUE,
                  !.result.output_files = <<<<"json", svg_path>>>>,
                  !.cp = Quiet(conv.parser), !.an = conv.an,
                  !.printed = @ \o conv.parser.log \o Say(verbose, <<"html_error">>)]
    ELSE
        [r EXCEPT !.result.success = TRUE,
                  !.result.output_files = <<<<"json", svg_path>>, <<"html", svg_path>>>>,
                  !.result.messages = <<<<"created_preview", <<"html", svg_path>>>>>>,
                  !.cp = Quiet(conv.parser), !.an = conv.an,
                  !.printed = @ \o conv.parser.log]

\* process_svg from step 3 on: conv is what convert_svg_to_lottie returned
process_svg_converted(r, conv, verbose, svg_path, file) ==
    IF conv.outcome = "raised" THEN
        [r EXCEPT !.raised = TRUE, !.result = NewResult(svg_path),
                  !.cp = Quiet(conv.parser), !.printed = @ \o conv.parser.log]
    ELSE IF conv.outcome # "written" THEN
        [r EXCEPT !.result.messages = <<<<"conversion_failed">>>>,
                  !.cp = Quiet(conv.parser), !.printed = @ \o conv.parser.log]
    ELSE IF file.status = "html_unwritable" THEN
        [r EXCEPT !.result.success = TRUE,
                  !.result.output_files = <<<<"json", svg_path>>>>,
                  !.cp = Quiet(conv.parser), !.an = conv.an,
                  !.printed = @ \o conv.parser.log \o Say(verbose, <<"html_error">>)]
    ELSE
        [r EXCEPT !.result.success = TRUE,
                  !.result.output_files = <<<<"json", svg_path>>, <<"html", svg_path>>>>,
                  !.result.messages = <<<<"created_preview", <<"html", svg_path>>>>>>,
                  !.cp = Quiet(conv.parser), !.an = conv.an,
                  !.printed = @ \o conv.parser.log]

\* process_svg from step 2 on: printed1 is what step 1 printed, bp1 the
\* builder's parser after analyze_structure, size what get_svg_size
\* returned, local the animation_config handed to the converter
process_svg_analysed(printed1, bp1, size, local, cp, verbose, svg_path, file, animation_config) ==
    process_svg_converted(
        [raised |-> FALSE,
         result |-> [NewResult(svg_path) EXCEPT !.structure_info =
                        <<[is_flat |-> is_flat(bp1.element_groups),
                           groups |-> Len(bp1.element_groups.groups),
                           paths |-> Len(bp1.element_groups.paths),
                           shapes |-> Len(bp1.element_groups.shapes),
                           dimensions |-> size]>>],
         animation_config |-> IF animation_config.none THEN animation_config ELSE local,
         bp |-> Quiet(bp1), cp |-> cp, an |-> NoAnimationWritten, visited |-> bp1.visited,
         printed |-> printed1 \o Say(verbose, <<"[2/3]">>) \o bp1.log
                         \o Say(verbose, <<"[3/3]">>)],
        convert_svg_to_lottie(Quiet(cp), verbose, file, local),
        verbose, svg_path, file)

\* process_svg from load_svg on
process_svg_loaded(loaded, cp, verbose, svg_path, file, animation_config) ==
    IF ~loaded.ok THEN
        [raised |-> FALSE,
         result |-> [NewResult(svg_path) EXCEPT !.messages = <<<<"cannot_load", svg_path>>>>],
         animation_config |-> animation_config, bp |-> Quiet(loaded.parser), cp |-> cp,
         an |-> NoAnimationWritten, visited |-> <<>>,
         printed |-> Say(verbose, <<"[1/3]">>) \o loaded.parser.log]
    ELSE process_svg_analysed(Say(verbose, <<"[1/3]">>) \o loaded.parser.log,
                              analyze_structure(Quiet(loaded.parser), verbose),
                              get_svg_size(file.doc),
                              WithSize(animation_config, get_svg_size(file.doc)),
                              cp, verbose, svg_path, file, animation_config)

\* process_svg(svg_path, output_path, animation_config) with builder parser
\* bp and converter parser cp.  raised = TRUE: an exception leaves
\* process_svg and there is no result.  animation_config is the caller's
\* dict afterwards, printed what was printed during the call.
process_svg(bp, cp, verbose, svg_path, file, animation_config) ==
    IF file.status = "missing" THEN
        [raised |-> FALSE,
         result |-> [NewResult(svg_path) EXCEPT
                        !.messages = <<<<"input_missing", svg_path>>>>],
         animation_config |-> animation_config, bp |-> bp, cp |-> cp,
         an |-> NoAnimationWritten, visited |-> <<>>, printed |-> <<>>]
    ELSE process_svg_loaded(load_svg(Quiet(bp), verbose, file.doc), cp, verbose, svg_path,
                            file, animation_config)

(***************************************************************************)
(* Inputs                                                                  *)
(***************************************************************************)
Document(nodes, width) ==
    [kind |-> "ok", root_id |-> "", width |-> width, height |-> <<>>, nodes |-> nodes]

MalformedDocument == [Document(<<>>, <<>>) EXCEPT !.kind = "malformed"]

\* documents for one-file runs: every tag without ids, and groups and
\* paths with every id
RichDocs ==
    {Document(nodes, <<>>) :
        nodes \in TreesOver(Tags, {""}, MaxNodes) \cup TreesOver({"g", "path"}, Ids, MaxNodes)}

\* small documents of different sizes for runs over several files
BatchDocs ==
    {Document(nodes, width) :
        nodes \in TreesOver({"path"}, {""}, MaxBatchNodes),
        width \in {<<>>, Str_200px}}

\* <svg><circle r="abc"/></svg>
BadCircleDocument ==
    Document(<<[tagName |-> "circle", id |-> "", parent |-> 0, geometry_ok |-> FALSE,
                fill |-> <<>>]>>, <<>>)

File(doc, status) == [doc |-> doc, status |-> status]

RichFiles == {File(doc, "ok") : doc \in RichDocs}

BatchFiles ==
    {File(doc, "ok") : doc \in BatchDocs}
    \cup {File(MalformedDocument, "ok"), File(BadCircleDocument, "ok")}
    \cup {File(Document(<<>>, <<>>), status) :
            status \in {"missing", "unwritable", "html_unwritable"}}

Configs ==
    {NoConfig, EmptyDict,
     SetKey(SetKey(EmptyDict, "width", Rat(50, 1)), "height", Rat(50, 1)),
     SetKey(EmptyDict, "background_color", <<>>),
     SetKey(EmptyDict, "background_color", Str_none),
     SetKey(EmptyDict, "background_color", Str_000000)}

RECURSIVE FileLists(_, _)
FileLists(S, n) ==
    IF n = 0 THEN {<<>>}
    ELSE FileLists(S, n - 1)
         \cup {Append(l, f) : l \in {t \in FileLists(S, n - 1) : Len(t) = n - 1}, f \in S}

\* the walk of os.walk(input_dir): what it yields is a file name and the
\* file.  endswith is str.endswith.
Str_dot_svg == <<".", "s", "v", "g">>

endswith(s, suffix) ==
    Len(s) >= Len(suffix) /\ SubSeq(s, Len(s) - Len(suffix) + 1, Len(s)) = suffix

\* "if file.lower().endswith('.svg')" without the lower()
is_svg_file_case_sensitive(name) == endswith(name, Str_dot_svg)

\* "if file.lower().endswith('.svg')"
is_svg_file(name) == endswith(lower(name), Str_dot_svg)

Entry(name, file) == [name |-> name, file |-> file]

\* the list svg_files built from what os.walk yields
svg_files_in(walk) ==
    LET kept == SelectSeq(walk, LAMBDA e : is_svg_file(e.name))
    IN  [k \in 1..Len(kept) |-> kept[k].file]

FileNames ==
    {<<"a", ".", "s", "v", "g">>, <<"B", ".", "S", "V", "G">>, <<"c", ".", "S", "v", "g">>,
     <<"d", ".", "p", "n", "g">>, <<"s", "v", "g">>, <<"e", ".", "s", "v", "g", "z">>}

\* a tree of only .svg files, one per file of the list
AllSvg(files) == [k \in 1..Len(files) |-> Entry(<<"a", ".", "s", "v", "g">>, files[k])]

\* trees of empty documents, present or deleted since the walk, under
\* names with and without the .svg suffix
WalkEntries ==
    {Entry(name, File(Document(<<>>, <<>>), status)) :
        name \in FileNames, status \in {"ok", "missing"}}

(***************************************************************************)
(* AnimationBuilder.batch_process as a state machine                       *)
(***************************************************************************)
VARIABLES
    walked,             \* what os.walk(input_dir) yields, in order
    svg_files,          \* the .svg files among them, in the order found
    given_config,       \* animation_config as the caller passed it
    animation_config,   \* the caller's animation_config object now
    verbose,
    parser,             \* AnimationBuilder.parser
    converter_parser,   \* AnimationBuilder.lottie_converter.parser
    result,             \* the dict batch_process builds
    i,                  \* 1-based position of the loop in svg_files
    pc,                 \* "loop", "done" (returned) or "raised"
    written,            \* per processed file, the animation exported
    visited,            \* per processed file, the ids assigned, in order
    printed,            \* per processed file, what was printed
    input,              \* the argument of a helper called on its own
    output              \* what that call returned, <<>> before it

vars == <<walked, svg_files, given_config, animation_config, verbose, parser, converter_parser,
          result, i, pc, written, visited, printed, input, output>>

Init ==
    /\ \/ /\ walked \in {AllSvg(<<f>>) : f \in RichFiles}
          /\ given_config = NoConfig
          /\ verbose = TRUE
       \/ /\ walked \in {AllSvg(files) : files \in FileLists(BatchFiles, MaxFiles)}
          /\ given_config \in Configs
          /\ verbose \in BOOLEAN
       \/ /\ walked \in FileLists(WalkEntries, MaxFiles)
          /\ given_config = NoConfig
          /\ verbose = FALSE
    /\ svg_files = svg_files_in(walked)
    /\ animation_config = given_config
    /\ parser = NewParser
    /\ converter_parser = NewParser
    /\ result = [success |-> TRUE, total_files |-> Len(svg_files), processed_files |-> 0,
                 failed_files |-> 0, results |-> <<>>]
    /\ i = 1
    /\ pc = "loop"
    /\ written = <<>>
    /\ visited = <<>>
    /\ printed = <<>>
    /\ input = <<>>
    /\ output = <<>>

\* one iteration of "for i, svg_file in enumerate(svg_files)"
batch_process_iteration ==
    /\ pc = "loop"
    /\ i <= Len(svg_files)
    /\ \E r \in {process_svg(parser, converter_parser, verbose, i, svg_files[i],
                            animation_config)} :
           /\ animation_config' = r.animation_config
           /\ parser' = r.bp
           /\ converter_parser' = r.cp
           /\ written' = Append(written, r.an)
           /\ visited' = Append(visited, r.visited)
           /\ printed' = Append(printed, r.printed)
           /\ IF r.raised
                THEN /\ pc' = "raised"
                     /\ UNCHANGED <<result, i>>
              ELSE /\ pc' = pc
                   /\ i' = i + 1
                   /\ result' =
                        [result EXCEPT
                            !.results = Append(@, r.result),
                            !.processed_files = IF r.result.success THEN @ + 1 ELSE @,
                            !.failed_files = IF r.result.success THEN @ ELSE @ + 1,
                            !.success = IF r.result.success THEN @ ELSE FALSE]
    /\ UNCHANGED <<walked, svg_files, given_config, verbose, input, output>>

\* "return result" after the loop
batch_process_return ==
    /\ pc = "loop"
    /\ i > Len(svg_files)
    /\ pc' = "done"
    /\ UNCHANGED <<walked, svg_files, given_config, animation_config, verbose, parser,
                   converter_parser, result, i, written, visited, printed, input, output>>

Next == batch_process_iteration \/ batch_process_return

Spec == Init /\ [][Next]_vars

(***************************************************************************)
(* The helpers called on their own: one call of _parse_svg_path,           *)
(* _parse_color or get_svg_size on an argument drawn from a bounded set.   *)
(* No batch is running (no files, the loop has returned).                  *)
(***************************************************************************)
NoBatch ==
    /\ walked = <<>>
    /\ svg_files = <<>>
    /\ given_config = NoConfig
    /\ animation_config = NoConfig
    /\ verbose = FALSE
    /\ parser = NewParser
    /\ converter_parser = NewParser
    /\ result = [success |-> TRUE, total_files |-> 0, processed_files |-> 0,
                 failed_files |-> 0, results |-> <<>>]
    /\ i = 1
    /\ pc = "done"
    /\ written = <<>>
    /\ visited = <<>>
    /\ printed = <<>>

batch_vars == <<walked, svg_files, given_config, animation_config, verbose, parser, converter_parser,
                result, i, pc, written, visited, printed>>

\* path data "M x,y L x,y ... Z": the coordinate pairs in input order
Coordinates == {0, 10}
Points == Coordinates \X Coordinates

RECURSIVE SeqsUpTo(_, _)
SeqsUpTo(S, n) ==
    IF n = 0 THEN {<<>>}
    ELSE SeqsUpTo(S, n - 1)
         \cup {Append(l, x) : l \in {t \in SeqsUpTo(S, n - 1) : Len(t) = n - 1}, x \in S}

ClosedPolylines == {[points |-> pts, closed |-> TRUE] : pts \in SeqsUpTo(Points, MaxPoints) \ {<<>>}}

PathInit ==
    /\ NoBatch
    /\ input \in ClosedPolylines
    /\ output = <<>>

call_parse_svg_path ==
    /\ output = <<>>
    /\ output' = _parse_svg_path(input)
    /\ UNCHANGED <<batch_vars, input>>

PathSpec == PathInit /\ [][call_parse_svg_path]_vars

\* the list _parse_svg_path returns, read as its comments describe it:
\* [closed, vertex type, vertex index], then per vertex
\* [x, y, in x, in y, out x, out y]
IsClosed(path) == path[1][1] = 1
Vertices(path) == [v \in 1..(Len(path) - 1) |-> <<path[v + 1][1], path[v + 1][2]>>]
Tangents(path) == [v \in 1..(Len(path) - 1) |-> SubSeq(path[v + 1], 3, 6)]

\* C11: for path data of one moveto, lineto commands and a closing Z the
\* translator returns a closed path with one vertex per coordinate pair, in
\* input order at the given coordinates, with all tangent offsets zero.
C11_PolylineIsTranslated ==
    output # <<>> =>
        /\ IsClosed(output)
        /\ Vertices(output) = input.points
        /\ \A v \in 1..Len(Tangents(output)) : Tangents(output)[v] = <<0, 0, 0, 0>>

(***************************************************************************)
(* One call of _parse_color.  A token is the text handed to _parse_color   *)
(* together with how it was built: kind is "transparent", "named", "hex3", *)
(* "hex", "rgb", "rgba" or "other" (malformed and unrecognised strings),   *)
(* channels the numbers it was built from.                                 *)
(***************************************************************************)
UpperChar(c) ==
    IF \E k \in 1..26 : LowerCase[k] = c
        THEN UpperCase[CHOOSE k \in 1..26 : LowerCase[k] = c]
    ELSE c

upper(s) == [k \in 1..Len(s) |-> UpperChar(s[k])]

Token(text, kind, channels) == [text |-> text, kind |-> kind, channels |-> channels]

\* the named-color table: name, r, g, b
NamedColors ==
    {<<<<"b", "l", "a", "c", "k">>, 0, 0, 0>>,
     <<<<"w", "h", "i", "t", "e">>, 1, 1, 1>>,
     <<<<"r", "e", "d">>, 1, 0, 0>>,
     <<<<"g", "r", "e", "e", "n">>, 0, 1, 0>>,
     <<<<"b", "l", "u", "e">>, 0, 0, 1>>,
     <<<<"y", "e", "l", "l", "o", "w">>, 1, 1, 0>>,
     <<<<"c", "y", "a", "n">>, 0, 1, 1>>,
     <<<<"m", "a", "g", "e", "n", "t", "a">>, 1, 0, 1>>}

TransparentColorTokens ==
    {Token(t, "transparent", <<>>) : t \in {<<>>, Str_none, upper(Str_none), <<"N", "o", "n", "e">>}}

NamedColorTokens ==
    UNION {{Token(n[1], "named", <<n[2], n[3], n[4]>>),
            Token(upper(n[1]), "named", <<n[2], n[3], n[4]>>)} : n \in NamedColors}

\* hex digits with their values, and the other characters int(_, 16) meets
HexDigitPool == {<<"0", 0>>, <<"8", 8>>, <<"f", 15>>, <<"F", 15>>}
NonHexPool == {"+", "-", " ", "g"}

\* "#RGB"
Hex3Tokens ==
    {Token(<<"#", r[1], g[1], b[1]>>, "hex3", <<17 * r[2], 17 * g[2], 17 * b[2], 255>>) :
        r \in HexDigitPool, g \in HexDigitPool, b \in HexDigitPool}

\* two-digit pairs with their values
HexPairPool == {<<<<"0", "0">>, 0>>, <<<<"8", "0">>, 128>>, <<<<"f", "f">>, 255>>}

\* "#RRGGBB" and "#RRGGBBAA"
Hex6Tokens ==
    {Token(<<"#">> \o r[1] \o g[1] \o b[1], "hex", <<r[2], g[2], b[2], 255>>) :
        r \in HexPairPool, g \in HexPairPool, b \in HexPairPool}

Hex8Tokens ==
    {Token(<<"#">> \o r[1] \o r[1] \o r[1] \o a[1], "hex", <<r[2], r[2], r[2], a[2]>>) :
        r \in HexPairPool, a \in HexPairPool}

\* "#" and then something that is not 3, 6 or 8 hex digits
MalformedHexTokens ==
    {Token(<<"#">> \o t, "other", <<>>) :
        t \in {<<>>, <<"f">>, <<"f", "f">>, <<"f", "f", "f", "f">>, <<"g", "g", "g">>}}
    \cup {Token(<<"#", x, "f", y, "f", z, "f">>, "other", <<>>) :
            x \in NonHexPool, y \in NonHexPool \cup {"0"}, z \in NonHexPool \cup {"0"}}

RECURSIVE Spaces(_)
Spaces(n) == IF n = 0 THEN <<>> ELSE <<" ">> \o Spaces(n - 1)

\* decimal numbers with their values
ComponentPool == {<<<<"0">>, 0>>, <<<<"2", "5", "5">>, 255>>, <<<<"3", "0", "0">>, 300>>}
AlphaPool == {<<<<"0">>, <<0, 1>>>>, <<<<"0", ".", "5">>, <<1, 2>>>>, <<<<"1">>, <<1, 1>>>>}

RgbText(r, g, b, n) ==
    <<"r", "g", "b", "(">> \o Spaces(n) \o r \o <<",">> \o Spaces(n) \o g \o Spaces(n) \o <<",">> \o b
        \o Spaces(n) \o <<")">>

RgbaText(r, g, b, a, n) ==
    <<"r", "g", "b", "a", "(">> \o Spaces(n) \o r \o <<",">> \o g \o <<",">> \o Spaces(n) \o b \o <<",">>
        \o Spaces(n) \o a \o Spaces(n) \o <<")">>

RgbTokens ==
    {Token(RgbText(r[1], g[1], b[1], n), "rgb", <<r[2], g[2], b[2]>>) :
        r \in ComponentPool, g \in ComponentPool, b \in ComponentPool, n \in 0..MaxSpaces}

RgbaTokens ==
    {Token(RgbaText(r[1], r[1], b[1], a[1], n), "rgba", <<r[2], r[2], b[2], a[2]>>) :
        r \in ComponentPool, b \in ComponentPool, a \in AlphaPool, n \in 0..MaxSpaces}

\* rgb()/rgba() outside the grammar: a missing component, a missing
\* alpha, an alpha that is no decimal or lies above 1, a negative component
MalformedRgbTokens ==
    {Token(t, "other", <<>>) :
        t \in {<<"r", "g", "b", "(">> \o <<"0", ",", "0", ")">>,
               <<"r", "g", "b", "a", "(">> \o <<"0", ",", "0", ",", "0", ")">>,
               <<"r", "g", "b", "(">> \o <<"-", "1", ",", "0", ",", "0", ")">>,
               <<"r", "g", "b", "(">> \o <<"0", ",", "0", ",", "0">>}}
    \cup {Token(RgbaText(<<"0">>, <<"0">>, <<"0">>, a, n), "other", <<>>) :
            a \in {<<".">>, <<"1", ".", "2", ".", "3">>, <<"2">>, <<"1", ".", "5">>},
            n \in 0..MaxSpaces}

UnknownTokens ==
    {Token(t, "other", <<>>) : t \in {<<"p", "u", "r", "p", "l", "e">>, <<"0">>, <<"r", "e", "d", " ">>}}

ColorTokens ==
    TransparentColorTokens \cup NamedColorTokens \cup Hex3Tokens \cup Hex6Tokens
    \cup Hex8Tokens \cup MalformedHexTokens \cup RgbTokens \cup RgbaTokens
    \cup MalformedRgbTokens \cup UnknownTokens

ColorInit ==
    /\ NoBatch
    /\ input \in ColorTokens
    /\ output = <<>>

call_parse_color ==
    /\ output = <<>>
    /\ output' = _parse_color(input.text)
    /\ UNCHANGED <<batch_vars, input>>

ColorSpec == ColorInit /\ [][call_parse_color]_vars

\* "#RGB" written as "#RRGGBB"
Expanded(t) == <<"#", t[2], t[2], t[3], t[3], t[4], t[4]>>

\* C12: the resolver returns, in first-match order, transparent black for
\* the empty token and "none", the table color with alpha 1 for a named
\* color, for "#RGB" what it returns for the expanded "#RRGGBB", the
\* channels divided by 255 for hex, rgb() and rgba() (alpha as written), and
\* opaque black for every other string.
C12_ResolverFollowsFirstMatch ==
    output # <<>> =>
        /\ input.kind = "transparent" => output = Color(Zero, Zero, Zero, Zero)
        /\ input.kind = "named" =>
               output = Color(Rat(input.channels[1], 1), Rat(input.channels[2], 1),
                              Rat(input.channels[3], 1), One)
        /\ input.kind = "hex3" => output = _parse_color(Expanded(input.text))
        /\ input.kind \in {"hex3", "hex"} =>
               output = Color(Rat(input.channels[1], 255), Rat(input.channels[2], 255),
                              Rat(input.channels[3], 255), Rat(input.channels[4], 255))
        /\ input.kind = "rgb" =>
               output = Color(Rat(input.channels[1], 255), Rat(input.channels[2], 255),
                              Rat(input.channels[3], 255), One)
        /\ input.kind = "rgba" =>
               output = Color(Rat(input.channels[1], 255), Rat(input.channels[2], 255),
                              Rat(input.channels[3], 255), input.channels[4])
        /\ input.kind = "other" => output = default_color

InUnitInterval(r) == 0 <= r[1] /\ r[1] <= r[2]

\* C13: each of the four channels the resolver returns lies in [0,1],
\* whatever the token.
C13_ChannelsInUnitInterval ==
    output # <<>> => \A c \in 1..4 : InUnitInterval(output[c])

(***************************************************************************)
(* One call of analyze_structure on a fresh parser, with either backend.   *)
(* load_svg takes svgelements when the library is installed and minidom    *)
(* otherwise.  Every element carries its own id, "n" and its position, so  *)
(* an id names one element.                                                *)
(***************************************************************************)
Labelled(nodes) == [n \in 1..Len(nodes) |-> [nodes[n] EXCEPT !.id = "n" \o ToString(n)]]

LabelledDocs ==
    {[Document(Labelled(nodes), <<>>) EXCEPT !.root_id = "root"] :
        nodes \in TreesOver(Tags, {""}, MaxNodes)}

\* the svgelements class an element is parsed into
ElementClass(doc, n) ==
    LET tag == TagName(doc, n) IN
    IF tag \in {"svg", "g"} THEN "Group"
    ELSE IF tag = "path" THEN "Path"
    ELSE IF tag = "circle" THEN "Circle"
    ELSE IF tag = "rect" THEN "Rect"
    ELSE "SVGElement"

\* process_element of _analyze_with_svgelements: the buckets afterwards
RECURSIVE process_element(_, _, _), ProcessElements(_, _, _)
process_element(eg, doc, n) ==
    IF ElementClass(doc, n) = "Group"
        THEN ProcessElements([eg EXCEPT !.groups = Append(@, IdAttr(doc, n))], doc,
                             Children(doc, n))
    ELSE IF ElementClass(doc, n) = "Path" THEN [eg EXCEPT !.paths = Append(@, IdAttr(doc, n))]
    ELSE IF ElementClass(doc, n) \in {"Circle", "Rect"}
        THEN [eg EXCEPT !.shapes = Append(@, IdAttr(doc, n))]
    ELSE eg

ProcessElements(eg, doc, kids) ==
    IF kids = <<>> THEN eg
    ELSE ProcessElements(process_element(eg, doc, Head(kids)), doc, Tail(kids))

_analyze_with_svgelements(doc) == process_element(EmptyElementGroups, doc, 0)

ClassifyInit ==
    /\ NoBatch
    /\ input \in [doc : LabelledDocs, backend : {"minidom", "svgelements"}]
    /\ output = <<>>

call_analyze_structure ==
    /\ output = <<>>
    /\ output' =
         IF input.backend = "svgelements" THEN _analyze_with_svgelements(input.doc)
         ELSE analyze_structure(load_svg(NewParser, FALSE, input.doc).parser,
                                FALSE).element_groups
    /\ UNCHANGED <<batch_vars, input>>

ClassifySpec == ClassifyInit /\ [][call_analyze_structure]_vars

\* the ids of the elements of input.doc with a tag in tags, in document order
InDocumentOrder(tags) ==
    LET nodes == input.doc.nodes
        picked == SelectSeq([n \in 1..Len(nodes) |-> n], LAMBDA n : nodes[n].tagName \in tags)
    IN  [j \in 1..Len(picked) |-> nodes[picked[j]].id]

\* a bucket without the root <svg> element
BelowRoot(bucket) == SelectSeq(bucket, LAMBDA e : e # input.doc.root_id)

\* C14: classification visits every element depth-first in pre-order:
\* groups lists the g elements, paths the path elements, shapes the
\* rect/circle/ellipse/polygon/polyline elements, each in document order,
\* also below an element of another tag, which itself is in no bucket.
C14_ClassifiedInDocumentOrder ==
    output # <<>> =>
        /\ BelowRoot(output.groups) = InDocumentOrder({"g"})
        /\ BelowRoot(output.paths) = InDocumentOrder({"path"})
        /\ BelowRoot(output.shapes) =
               InDocumentOrder({"rect", "circle", "ellipse", "polygon", "polyline"})

\* C14 for the minidom backend alone
C14_MinidomClassifiesInDocumentOrder ==
    input.backend = "minidom" => C14_ClassifiedInDocumentOrder

(***************************************************************************)
(* One call of get_svg_size.  A dimension is the text of the attribute     *)
(* (<<>> when absent) with the number its numeric prefix denotes, ok =     *)
(* FALSE when it has none.                                                 *)
(***************************************************************************)
Dimension(text, ok, val) == [text |-> text, ok |-> ok, val |-> val]

DimensionTexts ==
    {Dimension(<<"2", "0", "0">>, TRUE, Rat(200, 1)),
     Dimension(<<"2", "0", "0", "p", "x">>, TRUE, Rat(200, 1)),
     Dimension(<<"5", "0", "%">>, TRUE, Rat(50, 1)),
     Dimension(<<"1", ".", "5", "e", "m">>, TRUE, Rat(3, 2)),
     Dimension(<<"a", "b", "c">>, FALSE, Zero),
     Dimension(<<"p", "x">>, FALSE, Zero),
     Dimension(<<"a", "u", "t", "o">>, FALSE, Zero)}

Absent == Dimension(<<>>, TRUE, Zero)

SizeInit ==
    /\ NoBatch
    /\ input \in [width : DimensionTexts \cup {Absent}, height : DimensionTexts \cup {Absent}]
    /\ output = <<>>

\* get_svg_size catches every exception itself, so nothing is raised
call_get_svg_size ==
    /\ output = <<>>
    /\ output' =
         [raised |-> "none",
          size |-> get_svg_size([Document(<<>>, input.width.text) EXCEPT
                                     !.height = input.height.text])]
    /\ UNCHANGED <<batch_vars, input>>

SizeSpec == SizeInit /\ [][call_get_svg_size]_vars

\* what the attribute alone determines: its number, the default when absent
ExpectedDimension(dim, default) == IF dim = Absent THEN Rat(default, 1) ELSE dim.val

\* C18: width and height are extracted independently: an absent attribute
\* gives 800 (width) or 600 (height), an attribute with trailing units its
\* number, and InvalidDimension is raised exactly when an attribute has no
\* numeric prefix.
C18_DimensionsAreIndependent ==
    output # <<>> =>
        IF input.width.ok /\ input.height.ok
            THEN /\ output.raised = "none"
                 /\ output.size = <<ExpectedDimension(input.width, 800),
                                    ExpectedDimension(input.height, 600)>>
        ELSE output.raised = "InvalidDimension"

TypeOK ==
    /\ pc \in {"loop", "done", "raised"}
    /\ i \in 1..(Len(svg_files) + 1)
    /\ Len(written) = Len(visited)

(***************************************************************************)
(* Vocabulary of the properties                                            *)
(***************************************************************************)
Doc(k) == svg_files[k].doc
Nodes(k) == Doc(k).nodes

\* file k went through process_svg / got a result / was exported
Processed(k) == k \in 1..Len(written)
HasResult(k) == k \in 1..Len(result.results)
Converted(k) == HasResult(k) /\ result.results[k].success
Analysed(k) == Processed(k) /\ svg_files[k].status # "missing" /\ Doc(k).kind = "ok"

Finished == pc \in {"done", "raised"}

\* the kinds _save_node_content keeps a PrimitiveRecord for
PrimitiveTags == {"path", "circle", "rect", "polygon", "polyline"}
TopLevel(k, n) == Nodes(k)[n].parent = 0
InsideGroup(k, n) == \E a \in Ancestors(Nodes(k), n) : a # 0 /\ a # n /\ Nodes(k)[a].tagName = "g"

Layers(k) == written[k].layers
Sources(layer) == {layer.shapes[j].src : j \in 1..Len(layer.shapes)}
SourceSeq(layer) == [j \in 1..Len(layer.shapes) |-> layer.shapes[j].src]
LayerNames(k) == {Layers(k)[j].name : j \in 1..Len(Layers(k))}

\* C1: when batch_process ends, every discovered file has exactly one
\* entry in results, whatever happened to the files before it.
C1_EveryFileHasOneResult ==
    Finished =>
        /\ Len(result.results) = Len(svg_files)
        /\ \A k \in 1..Len(svg_files) : result.results[k].input_file = k

\* C2: process_svg never raises; a document that cannot be loaded,
\* converted or written gets a result record with success = FALSE.
C2_FailureIsAResultNotAnException ==
    /\ pc # "raised"
    /\ \A k \in 1..Len(result.results) :
           (svg_files[k].status \in {"missing", "unwritable"} \/ Doc(k).kind # "ok")
               => ~result.results[k].success

\* C3: given a configuration without width/height, the k-th document's
\* animation has the k-th document's own width and height, whatever
\* documents were processed before it.
C3_OwnDimensionsPerDocument ==
    /\ \A k \in 1..Len(result.results) :
           (Converted(k) /\ "width" \notin given_config.keys /\ "height" \notin given_config.keys)
               => /\ written[k].width = get_svg_size(Doc(k))[1]
                  /\ written[k].height = get_svg_size(Doc(k))[2]

\* C4: two loads of the same document on the same parser assign the same
\* identifiers to its elements.
C4_SameIdentifiersOnEveryLoad ==
    \A j, k \in 1..Len(visited) :
        (Analysed(j) /\ Analysed(k) /\ Doc(j) = Doc(k)) => visited[j] = visited[k]

\* C5: within one document no synthetic identifier equals the identifier
\* of another element.
C5_SyntheticIdentifiersAreUnique ==
    \A k \in 1..Len(visited) :
        Analysed(k) =>
            \A a, b \in 1..Len(visited[k]) :
                (a # b /\ IdAttr(Doc(k), a - 1) = "") => visited[k][a] # visited[k][b]

\* C6: the main layer holds a shape group for exactly the top-level paths
\* and shapes (those whose attributes could be read); nothing nested
\* inside a group appears in it.
C6_MainLayerIsTopLevelOnly ==
    \A k \in 1..Len(result.results) :
        Converted(k) =>
            /\ Sources(Layers(k)[2]) =
                   {n \in 1..Len(Nodes(k)) :
                        /\ Nodes(k)[n].tagName \in PrimitiveTags
                        /\ TopLevel(k, n)
                        /\ Nodes(k)[n].geometry_ok}
            /\ \A n \in Sources(Layers(k)[2]) : ~InsideGroup(k, n)

TopLevelGroups(k) ==
    SelectSeq([n \in 1..Len(Nodes(k)) |-> n],
              LAMBDA n : Nodes(k)[n].tagName = "g" /\ TopLevel(k, n))

ClassifiedChildren(k, g) ==
    SelectSeq(Children(Doc(k), g),
              LAMBDA n : Nodes(k)[n].tagName \in PrimitiveTags /\ Nodes(k)[n].geometry_ok)

\* C7: after the main layer comes exactly one layer per top-level group, in
\* document order, the j-th named with ordinal j and holding that group's
\* classified children.
C7_OneLayerPerTopLevelGroup ==
    \A k \in 1..Len(result.results) :
        Converted(k) =>
            /\ Len(Layers(k)) = 2 + Len(TopLevelGroups(k))
            /\ \A j \in 1..Len(TopLevelGroups(k)) :
                   /\ Layers(k)[2 + j].name = "Group " \o ToString(j)
                   /\ SourceSeq(Layers(k)[2 + j]) = ClassifiedChildren(k, TopLevelGroups(k)[j])

TransparentTokens == {<<>>, Str_none}
ConfiguredBackground == MergedConfig(given_config).background_color

\* C8: with the transparent token as background color conversion succeeds
\* and there is no background layer; with any other background color the
\* background layer is the first layer.
C8_TransparentOmitsBackground ==
    IF ConfiguredBackground \in TransparentTokens
        THEN /\ pc # "raised"
             /\ \A k \in 1..Len(result.results) :
                    Converted(k) => "Background" \notin LayerNames(k)
    ELSE \A k \in 1..Len(result.results) :
             Converted(k) => Layers(k)[1].name = "Background"

OnlyTopLevelPaths(k) ==
    \A n \in 1..Len(Nodes(k)) : Nodes(k)[n].tagName = "path" /\ TopLevel(k, n)

IsGroupLayerName(name) == \E j \in 1..(MaxNodes + 1) : name = "Group " \o ToString(j)

FailingPrimitives(k) ==
    {n \in 1..Len(Nodes(k)) : ~Nodes(k)[n].geometry_ok}

AllSources(k) == UNION {Sources(Layers(k)[j]) : j \in 1..Len(Layers(k))}

HasDiagnostic(k, n) ==
    \E m \in 1..Len(printed[k]) :
        printed[k][m] = <<"save_node_content_error", visited[k][n + 1]>>

\* C10: a primitive that cannot be added contributes no shape group and
\* has a diagnostic recorded, its siblings are still processed and the
\* document is still assembled.
C10_PartialResultPolicy ==
    \A k \in 1..Len(result.results) :
        (Analysed(k) /\ svg_files[k].status # "unwritable" /\ FailingPrimitives(k) # {}) =>
            /\ Converted(k)
            /\ \A n \in FailingPrimitives(k) :
                   /\ n \notin AllSources(k)
                   /\ HasDiagnostic(k, n)
                   /\ \A sib \in 1..Len(Nodes(k)) :
                          (/\ Nodes(k)[sib].parent = Nodes(k)[n].parent
                           /\ Nodes(k)[sib].geometry_ok
                           /\ Nodes(k)[sib].tagName \in {"path", "circle", "rect"})
                              => sib \in AllSources(k)

\* the file whose records AnimationBuilder.parser holds
LastAnalysed == IF written # <<>> /\ Analysed(Len(written)) THEN {Len(written)} ELSE {}

\* the primitive records the parser holds, of top-level elements and of
\* elements inside groups
PrimitiveRecords ==
    UNION {{parser.element_groups.original_elements[id][j] :
                j \in 1..Len(parser.element_groups.original_elements[id])} :
           id \in DOMAIN parser.element_groups.original_elements}

\* C15: a primitive record whose source element has no fill attribute
\* carries the fill token "black", for paths, rects, circles, polygons and
\* polylines, top-level or inside a group.
C15_DefaultFillIsBlack ==
    \A k \in LastAnalysed :
        \A r \in PrimitiveRecords :
            Nodes(k)[r.geom].fill = <<>> => r.fill = Str_black

GeometryKinds == {"Path", "Rect", "Ellipse"}
CountOf(group, kinds) == Cardinality({j \in 1..Len(group.shapes) : group.shapes[j].ty \in kinds})

\* C16: every shape group in every layer of the assembled animation holds
\* exactly one geometry and exactly one fill, whatever kind of primitive
\* it was built from.
C16_OneGeometryOneFill ==
    \A k \in 1..Len(result.results) :
        Converted(k) =>
            \A l \in 1..Len(Layers(k)) :
                \A j \in 1..Len(Layers(k)[l].shapes) :
                    /\ CountOf(Layers(k)[l].shapes[j], GeometryKinds) = 1
                    /\ CountOf(Layers(k)[l].shapes[j], {"Fill"}) = 1

\* the lines that report an error, among those log() and print() write
DiagnosticKinds ==
    {"parse_error", "cannot_load", "save_node_content_error", "save_error", "html_error"}

\* the kind of result message that carries the diagnostic of a printed line:
\* "cannot_load" for an error of load_svg, "conversion_failed" for an error
\* of convert_svg_to_lottie
MessageKindsFor(line_kind) ==
    IF line_kind = "parse_error" THEN {"cannot_load", "conversion_failed"}
    ELSE IF line_kind \in {"cannot_load", "save_error"} THEN {"conversion_failed"}
    ELSE {line_kind}

Messages(k) == result.results[k].messages
InMessages(k, kinds) == \E m \in 1..Len(Messages(k)) : Messages(k)[m][1] \in kinds

\* C17: every diagnostic produced while one document is processed (a
\* skipped primitive, a load, conversion or write error) is in the messages
\* of the result record process_svg returns; none is only printed or lost.
C17_DiagnosticsAreReturned ==
    \A k \in 1..Len(result.results) :
        /\ \A m \in 1..Len(printed[k]) :
               printed[k][m][1] \in DiagnosticKinds
                   => InMessages(k, MessageKindsFor(printed[k][m][1]))
        /\ (Analysed(k) /\ FailingPrimitives(k) # {})
               => InMessages(k, {"save_node_content_error"})
        /\ svg_files[k].status = "html_unwritable" => InMessages(k, {"html_error"})

\* the name ends in .svg, whatever the case of its letters
EndsInSvg(name) ==
    /\ Len(name) >= 4
    /\ name[Len(name) - 3] = "."
    /\ name[Len(name) - 2] \in {"s", "S"}
    /\ name[Len(name) - 1] \in {"v", "V"}
    /\ name[Len(name)] \in {"g", "G"}

SvgFilesInTree == {k \in 1..Len(walked) : EndsInSvg(walked[k].name)}

\* C19: after batch_process returns, total_files is the number of files of
\* the tree whose name ends in .svg in any case, processed_files +
\* failed_files = total_files = the number of results, and success is
\* true exactly when failed_files = 0.
C19_BatchCounts ==
    pc = "done" =>
        /\ result.total_files = Cardinality(SvgFilesInTree)
        /\ result.processed_files + result.failed_files = result.total_files
        /\ result.total_files = Len(result.results)
        /\ result.success <=> result.failed_files = 0

C19_Witness ==
    /\ pc = "done"
    /\ \E k \in 1..Len(walked) : ~EndsInSvg(walked[k].name)
    /\ \E k \in SvgFilesInTree : walked[k].name # lower(walked[k].name)
    /\ result.failed_files > 0
    /\ result.total_files = Cardinality(SvgFilesInTree)

\* the shape groups of animation k built from element n: <<layer, position>>
ShapeGroupsOf(k, n) ==
    {lj \in (1..Len(Layers(k))) \X (1..(2 * MaxNodes)) :
        /\ lj[2] <= Len(Layers(k)[lj[1]].shapes)
        /\ Layers(k)[lj[1]].shapes[lj[2]].src = n}

\* C20: each primitive of the document yields at most one shape group in
\* the whole animation; none is emitted into more than one layer (main
\* layer, its group's layer, an outer group's layer).
C20_AtMostOneShapeGroupPerPrimitive ==
    \A k \in 1..Len(result.results) :
        Converted(k) =>
            \A n \in 1..Len(Nodes(k)) : Cardinality(ShapeGroupsOf(k, n)) <= 1

ErrorMessageKinds == {"input_missing", "cannot_load", "conversion_failed"}

\* C21: in every result record process_svg returns, success is true
\* exactly when output_files is non-empty and starts with the JSON path
\* that was written; when success is false output_files is empty and
\* messages holds an error message (missing input, load failure or
\* conversion failure).
C21_SuccessMatchesOutputFiles ==
    \A k \in 1..Len(result.results) :
        /\ result.results[k].success <=>
               /\ result.results[k].output_files # <<>>
               /\ result.results[k].output_files[1] = <<"json", k>>
               /\ written[k] # NoAnimationWritten
        /\ ~result.results[k].success =>
               /\ result.results[k].output_files = <<>>
               /\ InMessages(k, ErrorMessageKinds)

C21_Witness ==
    /\ pc = "done"
    /\ \E k \in 1..Len(result.results) :
           /\ svg_files[k].status = "unwritable"
           /\ ~result.results[k].success
           /\ InMessages(k, {"conversion_failed"})
    /\ \E k \in 1..Len(result.results) :
           /\ result.results[k].success
           /\ result.results[k].output_files[1] = <<"json", k>>

====
